---- MODULE Spec2Model ----
(***************************************************************************)
(* Model of voc/python/methods.py: the parameter classifier                *)
(* (extract_parameters) and the four callable variants (Method,            *)
(* InitMethod, InstanceMethod, MainMethod): slot allocation in __init__,   *)
(* the prologue built by tweak, and the record built by transpile.         *)
(***************************************************************************)
EXTENDS Integers, Sequences, FiniteSets

\* ---------------------------------------------------------------- bounds
MaxArgs == 2        \* largest co_argcount drawn
MaxKwOnly == 1      \* largest co_kwonlyargcount drawn
MaxNames == 4       \* longest co_varnames drawn
MaxDefaults == 2    \* longest __defaults__ tuple of the function
MaxParams == 3      \* longest declared parameter list handed to a callable
MaxBody == 2        \* longest body (commands) handed to a callable

\* ------------------------------------------------------- module constants
POSITIONAL_OR_KEYWORD == 1
VAR_POSITIONAL == 2
KEYWORD_ONLY == 3
VAR_KEYWORD == 4

CO_VARARGS == 4
CO_VARKEYWORDS == 8

None == "None"

\* ------------------------------------------------------- python helpers
Min(a, b) == IF a < b THEN a ELSE b
Max(a, b) == IF a > b THEN a ELSE b

\* s[lo:hi] on a tuple/list: bounds are clamped, a negative bound counts
\* from the end; never raises.
SliceIndex(n, len) == IF n < 0 THEN Max(n + len, 0) ELSE Min(n, len)
Slice(s, lo, hi) == SubSeq(s, SliceIndex(lo, Len(s)) + 1, SliceIndex(hi, Len(s)))

\* s[index] for index >= 0: raises IndexError past the end.
InRange(s, index) == index >= 0 /\ index < Len(s)
Item(s, index) == s[index + 1]

\* flags & bit, for a single-bit mask
HasFlag(flags, bit) == (flags \div bit) % 2 = 1

\* ======================================================================
\* extract_parameters(code)
\* ======================================================================
VARIABLES
    code,           \* the code object: co_argcount, co_varnames, co_kwonlyargcount, co_flags
    func_defaults,  \* __defaults__ of the function the code object belongs to
    outcome,        \* "pending" | "returned" | "IndexError"
    result          \* the returned parameter list

pos_count(c) == c.co_argcount
arg_names(c) == c.co_varnames
positional(c) == Slice(arg_names(c), 0, pos_count(c))
keyword_only_count(c) == c.co_kwonlyargcount
keyword_only(c) == Slice(arg_names(c), pos_count(c), pos_count(c) + keyword_only_count(c))
annotations_get(name) == None
defs == None
kwdefaults == None

pos_default_count == IF defs # None /\ Len(defs) > 0 THEN Len(defs) ELSE 0

non_default_count(c) == pos_count(c) - pos_default_count

\* Non-keyword-only parameters w/o defaults.
without_defaults(c) ==
    LET names == Slice(positional(c), 0, non_default_count(c))
    IN [k \in 1..Len(names) |->
          [name |-> names[k], annotation |-> annotations_get(names[k]),
           kind |-> POSITIONAL_OR_KEYWORD]]

\* ... w/ defaults.
with_defaults(c) ==
    LET names == Slice(positional(c), non_default_count(c), Len(positional(c)))
    IN [k \in 1..Len(names) |->
          [name |-> names[k], annotation |-> annotations_get(names[k]),
           kind |-> POSITIONAL_OR_KEYWORD, default |-> Item(defs, k - 1)]]

\* *args
var_positional_index(c) == pos_count(c) + keyword_only_count(c)
var_positional(c) ==
    IF HasFlag(c.co_flags, CO_VARARGS)
    THEN LET name == Item(arg_names(c), var_positional_index(c))
         IN << [name |-> name, annotation |-> annotations_get(name),
                kind |-> VAR_POSITIONAL] >>
    ELSE << >>

\* Keyword-only parameters.
keyword_only_default(name) == IF kwdefaults # None THEN kwdefaults[name] ELSE None
keyword_only_parameters(c) ==
    LET names == keyword_only(c)
    IN [k \in 1..Len(names) |->
          [name |-> names[k], annotation |-> annotations_get(names[k]),
           kind |-> KEYWORD_ONLY, default |-> keyword_only_default(names[k])]]

\* **kwargs
var_keyword_index_noshift(c) == pos_count(c) + keyword_only_count(c)
var_keyword_index(c) ==
    pos_count(c) + keyword_only_count(c)
        + (IF HasFlag(c.co_flags, CO_VARARGS) THEN 1 ELSE 0)
var_keyword(c) ==
    IF HasFlag(c.co_flags, CO_VARKEYWORDS)
    THEN LET name == Item(arg_names(c), var_keyword_index(c))
         IN << [name |-> name, annotation |-> annotations_get(name),
                kind |-> VAR_KEYWORD] >>
    ELSE << >>

\* The subscripts arg_names[...] that raise IndexError.
raises_IndexError(c) ==
    \/ /\ HasFlag(c.co_flags, CO_VARARGS)
       /\ ~InRange(arg_names(c), var_positional_index(c))
    \/ /\ HasFlag(c.co_flags, CO_VARKEYWORDS)
       /\ ~InRange(arg_names(c), var_keyword_index(c))

parameters_of(c) ==
    without_defaults(c) \o with_defaults(c) \o var_positional(c)
        \o keyword_only_parameters(c) \o var_keyword(c)

\* ---- inputs
Names == {"a", "b", "c", "d"}
DefaultValues == {"d1", "d2"}
\* CO_OPTIMIZED | CO_NEWLOCALS | CO_NOFREE, as every function's code object has
BaseFlags == 64 + 2 + 1
FlagValues == {BaseFlags, BaseFlags + CO_VARARGS, BaseFlags + CO_VARKEYWORDS,
               BaseFlags + CO_VARARGS + CO_VARKEYWORDS}

SeqsUpTo(S, n) == UNION {[1..k -> S] : k \in 0..n}
IsInjective(s) == \A j, k \in DOMAIN s : s[j] = s[k] => j = k
\* co_varnames: parameter names, then local names; all distinct
VarNames == {s \in SeqsUpTo(Names, MaxNames) : IsInjective(s)}


\* ======================================================================
\* Method, InitMethod, InstanceMethod, MainMethod
\* ======================================================================
VARIABLES
    call,        \* the constructor call: cls and the arguments that class takes
    pc,          \* position in the callable's life: __init__ steps, tweak, transpile
    name,        \* self.name
    parameters,  \* self.parameters (the visible parameters)
    returns,     \* self.returns
    static,      \* self.static
    localvars,   \* self.localvars: name -> slot
    i,           \* loop index of the reservation loop in __init__
    setup,       \* the instructions tweak puts before the body
    tweaked,     \* what tweak returns
    exported     \* the JavaMethod transpile returns

Classes == {"Method", "InitMethod", "InstanceMethod", "MainMethod"}

ARGS == "##__args__##"
KWARGS == "##__kwargs__##"

\* a dict is a function on its key set
EmptyDict == [k \in {} |-> None]
DictSet(d, key, value) ==
    [k \in DOMAIN d \cup {key} |-> IF k = key THEN value ELSE d[k]]
DictLen(d) == Cardinality(DOMAIN d)

\* ---- constructor arguments, as each class passes them to Method.__init__
name_arg(c) ==
    CASE c.cls = "Method" -> c.name
      [] c.cls = "InstanceMethod" -> c.name
      [] c.cls = "InitMethod" -> "__init__"
      [] c.cls = "MainMethod" -> "__main__"

parameters_arg(c) ==
    CASE c.cls = "Method" -> c.parameters
      [] c.cls = "InstanceMethod" -> Slice(c.parameters, 1, Len(c.parameters))
      [] c.cls = "InitMethod" -> Slice(c.parameters, 1, Len(c.parameters))
      [] c.cls = "MainMethod" -> << [name |-> "args", annotation |-> "argv"] >>

\* the returns argument is << >> for None and <<dict>> for a dict
returns_arg(c) ==
    CASE c.cls = "Method" -> c.returns
      [] c.cls = "InstanceMethod" -> c.returns
      [] c.cls = "InitMethod" -> << [annotation |-> None] >>
      [] c.cls = "MainMethod" -> << [annotation |-> None] >>

static_arg(c) ==
    CASE c.cls = "Method" -> c.static
      [] c.cls = "InstanceMethod" -> c.static
      [] c.cls = "InitMethod" -> FALSE
      [] c.cls = "MainMethod" -> TRUE

\* ---- properties
has_self(cls) == cls \in {"InitMethod", "InstanceMethod"}

method_name_declared(cls, n) ==
    CASE cls = "InitMethod" -> "<init>"
      [] OTHER -> n
method_name(cls, n) ==
    CASE cls = "InitMethod" -> "<init>"
      [] cls = "MainMethod" -> "main"
      [] OTHER -> n

signature(cls, r) ==
    IF cls = "MainMethod"
    THEN "([Ljava/lang/String;)V"
    ELSE IF "annotation" \in DOMAIN r /\ r["annotation"] = None
         THEN "([Lorg/python/Object;Ljava/util/Hashtable;)V"
         ELSE "([Lorg/python/Object;Ljava/util/Hashtable;)Lorg/python/Object;"

\* ---- instructions
super_name == "java/lang/Object"
ALOAD_name(lv, n) == [op |-> "ALOAD", var |-> lv[n]]
ASTORE_name(lv, n) == [op |-> "ASTORE", var |-> lv[n]]
ICONST_val(v) == [op |-> "ICONST", val |-> v]
AALOAD == [op |-> "AALOAD"]
ALOAD_0 == [op |-> "ALOAD_0"]
INVOKESPECIAL(cn, mn, desc) ==
    [op |-> "INVOKESPECIAL", class_name |-> cn, method |-> mn, descriptor |-> desc]
RETURN == [op |-> "RETURN"]
NOP == [op |-> "NOP"]

void_return(c) ==
    IF Len(c) > 0 /\ c[Len(c)] = RETURN THEN c ELSE c \o << RETURN >>
ignore_empty(c) == IF c = << >> THEN << RETURN >> ELSE c

\* ---- tweak: the instructions each class puts before the body
unpack_shifted(lv, idx, n) ==
    << ALOAD_name(lv, ARGS), ICONST_val(idx + 1), AALOAD, ASTORE_name(lv, n) >>
unpack(lv, idx, n) ==
    << ALOAD_name(lv, ARGS), ICONST_val(idx), AALOAD, ASTORE_name(lv, n) >>

\* for i, arg in enumerate(self.parameters): setup.extend([...])
RECURSIVE load_arguments(_, _, _)
load_arguments(lv, params, idx) ==
    IF idx >= Len(params)
    THEN << >>
    ELSE unpack(lv, idx, Item(params, idx).name) \o load_arguments(lv, params, idx + 1)

super_found_searched(body) ==
    \E k \in DOMAIN body : body[k].op = "INVOKESPECIAL" /\ body[k].method = "<init>"
super_found(body) == FALSE

Method_setup(lv, params) == load_arguments(lv, params, 0)

InitMethod_setup_with_self(lv, params, body) ==
    unpack(lv, 0, "self") \o load_arguments(lv, params, 0)
        \o << ALOAD_0, INVOKESPECIAL(super_name, "<init>", "()V") >>
InitMethod_setup(lv, params, body) ==
    load_arguments(lv, params, 0)
        \o (IF ~super_found(body)
            THEN << ALOAD_0, INVOKESPECIAL(super_name, "<init>", "()V") >>
            ELSE << >>)

InstanceMethod_setup(lv, params) ==
    unpack(lv, 0, "self") \o Method_setup(lv, params)

MainMethod_setup(lv, params) == << >>

tweak_setup(cls, lv, params, body) ==
    CASE cls = "Method" -> Method_setup(lv, params)
      [] cls = "InitMethod" -> InitMethod_setup(lv, params, body)
      [] cls = "InstanceMethod" -> InstanceMethod_setup(lv, params)
      [] cls = "MainMethod" -> MainMethod_setup(lv, params)

tweak(cls, lv, params, body) ==
    LET s == tweak_setup(cls, lv, params, body)
    IN CASE cls = "Method" -> void_return(s \o body)
         [] cls = "InitMethod" -> ignore_empty(void_return(s \o body))
         [] cls = "InstanceMethod" -> void_return(s \o body)
         [] cls = "MainMethod" -> ignore_empty(void_return(body))

\* ---- inputs
ParamNames == {"this", "self", "x", "y"}
\* parameter names of one function are distinct
ParamLists ==
    {[k \in DOMAIN s |-> [name |-> s[k], annotation |-> None]] :
        s \in {t \in SeqsUpTo(ParamNames, MaxParams) : IsInjective(t)}}
MethodNames == {"f"}
ReturnsArgs == {<< >>, << [annotation |-> None] >>, << [annotation |-> "int"] >>}
BodyInstructions == {NOP, RETURN, INVOKESPECIAL(super_name, "<init>", "()V")}
Bodies == SeqsUpTo(BodyInstructions, MaxBody)

Calls ==
    [cls : {"Method", "InstanceMethod"}, name : MethodNames, parameters : ParamLists,
     returns : ReturnsArgs, static : BOOLEAN, commands : Bodies]
    \cup [cls : {"InitMethod"}, parameters : ParamLists, commands : Bodies]
    \cup [cls : {"MainMethod"}, commands : Bodies]

NoCall == [cls |-> "none"]
NoCode == [co_argcount |-> 0, co_varnames |-> << >>, co_kwonlyargcount |-> 0,
           co_flags |-> BaseFlags]

vars == <<code, func_defaults, outcome, result,
          call, pc, name, parameters, returns, static, localvars, i,
          setup, tweaked, exported>>
mvars == <<call, pc, name, parameters, returns, static, localvars, i,
           setup, tweaked, exported>>
evars == <<code, func_defaults, outcome, result>>

NoExport == [name |-> None, descriptor |-> None, static |-> FALSE, attributes |-> << >>]

IdleMethod ==
    /\ pc = "new"
    /\ name = None
    /\ parameters = << >>
    /\ returns = EmptyDict
    /\ static = FALSE
    /\ localvars = EmptyDict
    /\ i = 0
    /\ setup = << >>
    /\ tweaked = << >>
    /\ exported = NoExport

\* ---- Method.__init__, step by step
\* super().__init__(parent, commands); self.name, self.parameters, self.returns
Method_init ==
    /\ pc = "new"
    /\ call.cls \in Classes
    /\ name' = name_arg(call)
    /\ parameters' = parameters_arg(call)
    /\ returns' = IF returns_arg(call) = << >> THEN EmptyDict ELSE returns_arg(call)[1]
    /\ pc' = "add_self"
    /\ UNCHANGED <<call, static, localvars, i, setup, tweaked, exported>>

\* self.add_self()
add_self ==
    /\ pc = "add_self"
    /\ localvars' = IF has_self(call.cls)
                    THEN DictSet(localvars, "self", DictLen(localvars))
                    ELSE localvars
    /\ pc' = "args"
    /\ UNCHANGED <<call, name, parameters, returns, static, i, setup, tweaked, exported>>

\* self.localvars['##__args__##'] = len(self.localvars)
reserve_args ==
    /\ pc = "args"
    /\ localvars' = DictSet(localvars, ARGS, DictLen(localvars))
    /\ pc' = "kwargs"
    /\ UNCHANGED <<call, name, parameters, returns, static, i, setup, tweaked, exported>>

\* self.localvars['##__kwargs__##'] = len(self.localvars)
reserve_kwargs ==
    /\ pc = "kwargs"
    /\ localvars' = DictSet(localvars, KWARGS, DictLen(localvars))
    /\ i' = 0
    /\ pc' = "params"
    /\ UNCHANGED <<call, name, parameters, returns, static, setup, tweaked, exported>>

\* for i, arg in enumerate(self.parameters): self.localvars[arg['name']] = len(self.localvars)
reserve_parameter ==
    /\ pc = "params"
    /\ i < Len(parameters)
    /\ localvars' = DictSet(localvars, Item(parameters, i).name, DictLen(localvars))
    /\ i' = i + 1
    /\ UNCHANGED <<call, pc, name, parameters, returns, static, setup, tweaked, exported>>

\* self.static = static
set_static ==
    /\ pc = "params"
    /\ i >= Len(parameters)
    /\ static' = static_arg(call)
    /\ pc' = "constructed"
    /\ UNCHANGED <<call, name, parameters, returns, localvars, i, setup, tweaked, exported>>

\* self.tweak(code), called on the body while transpiling
do_tweak ==
    /\ pc = "constructed"
    /\ setup' = tweak_setup(call.cls, localvars, parameters, call.commands)
    /\ tweaked' = tweak(call.cls, localvars, parameters, call.commands)
    /\ pc' = "tweaked"
    /\ UNCHANGED <<call, name, parameters, returns, static, localvars, i, exported>>

\* return JavaMethod(self.method_name, self.signature, static=self.static, attributes=[code])
transpile ==
    /\ pc = "tweaked"
    /\ exported' = [name |-> method_name(call.cls, name),
                    descriptor |-> signature(call.cls, returns),
                    static |-> static,
                    attributes |-> << tweaked >>]
    /\ pc' = "transpiled"
    /\ UNCHANGED <<call, name, parameters, returns, static, localvars, i, setup, tweaked>>

Init ==
    /\ call \in Calls
    /\ IdleMethod
    /\ code = NoCode /\ func_defaults = << >> /\ outcome = "idle" /\ result = << >>

Next ==
    \/ Method_init /\ UNCHANGED evars
    \/ add_self /\ UNCHANGED evars
    \/ reserve_args /\ UNCHANGED evars
    \/ reserve_kwargs /\ UNCHANGED evars
    \/ reserve_parameter /\ UNCHANGED evars
    \/ set_static /\ UNCHANGED evars
    \/ do_tweak /\ UNCHANGED evars
    \/ transpile /\ UNCHANGED evars

Spec == Init /\ [][Next]_vars

\* ---- the classifier on its own
InitExtract ==
    /\ code \in [co_argcount : 0..MaxArgs,
                 co_varnames : VarNames,
                 co_kwonlyargcount : 0..MaxKwOnly,
                 co_flags : FlagValues]
    /\ func_defaults \in SeqsUpTo(DefaultValues, MaxDefaults)
    /\ outcome = "pending"
    /\ result = << >>
    /\ call = NoCall
    /\ IdleMethod

extract_parameters ==
    /\ outcome = "pending"
    /\ IF raises_IndexError(code)
       THEN /\ outcome' = "IndexError"
            /\ result' = << >>
       ELSE /\ outcome' = "returned"
            /\ result' = parameters_of(code)
    /\ UNCHANGED <<code, func_defaults>>
    /\ UNCHANGED mvars

NextExtract == extract_parameters

SpecExtract == InitExtract /\ [][NextExtract]_vars

\* ======================================================================
\* Properties
\* ======================================================================
VarArgs(c) == HasFlag(c.co_flags, CO_VARARGS)
VarKeywords(c) == HasFlag(c.co_flags, CO_VARKEYWORDS)
DeclaredNames(c) ==
    pos_count(c) + keyword_only_count(c)
        + (IF VarArgs(c) THEN 1 ELSE 0) + (IF VarKeywords(c) THEN 1 ELSE 0)
\* the name list covers the counts and flags, and the defaults fit the positional block
WellFormed == Len(arg_names(code)) >= DeclaredNames(code)
                /\ Len(func_defaults) <= pos_count(code)
OfKind(ps, kind) == SelectSeq(ps, LAMBDA p : p.kind = kind)

\* C1: for P positional names and D <= P positional defaults the result has
\* exactly P POSITIONAL_OR_KEYWORD parameters in name order, the first P-D
\* without a default and the last D each with the default at its offset.
C1_PositionalDefaults ==
    (outcome = "returned" /\ WellFormed) =>
        LET P == pos_count(code)
            D == Len(func_defaults)
            pk == OfKind(result, POSITIONAL_OR_KEYWORD)
        IN /\ Len(pk) = P
           /\ \A k \in 1..Len(pk) :
                /\ pk[k].name = arg_names(code)[k]
                /\ k <= P - D => "default" \notin DOMAIN pk[k]
                /\ k > P - D => /\ "default" \in DOMAIN pk[k]
                                /\ pk[k].default = func_defaults[k - (P - D)]

\* C2: with the variadic-keyword flag set, a returned list holds exactly one
\* VAR_KEYWORD parameter, it is the last one, and its name is the raw name at
\* index pos+kwonly, plus 1 when the variadic-positional flag is set; with the
\* flag clear the list holds no VAR_KEYWORD parameter.
C2_VarKeywordLast ==
    outcome = "returned" =>
        LET vk == OfKind(result, VAR_KEYWORD)
            base == code.co_argcount + code.co_kwonlyargcount
            index == IF VarArgs(code) THEN base + 1 ELSE base
        IN IF VarKeywords(code)
           THEN /\ Len(vk) = 1
                /\ result[Len(result)].kind = VAR_KEYWORD
                /\ index < Len(code.co_varnames)
                /\ result[Len(result)].name = code.co_varnames[index + 1]
           ELSE Len(vk) = 0

C2_Witness ==
    /\ outcome = "returned"
    /\ VarKeywords(code) /\ VarArgs(code)
    /\ code.co_argcount = 1 /\ code.co_kwonlyargcount = 1
    /\ Len(result) = 4
    /\ result[4].kind = VAR_KEYWORD

\* C8: a name list shorter than the counts and flags declare, or more
\* positional defaults than positional parameters, ends in an error and
\* returns no list.
C8_MalformedRejected ==
    (outcome # "pending" /\ ~WellFormed) => outcome # "returned"

Constructed == pc \in {"constructed", "tweaked", "transpiled"}
Tweaked == pc \in {"tweaked", "transpiled"}

\* C3: after construction the slot table of an InstanceMethod or InitMethod
\* with P visible parameters has P + 3 entries, that of a plain Method P + 2.
C3_TableSize ==
    (Constructed /\ call.cls \in {"Method", "InstanceMethod", "InitMethod"}) =>
        DictLen(localvars) = Len(parameters) + (IF has_self(call.cls) THEN 3 ELSE 2)

\* C7: an InstanceMethod or InitMethod built from an empty declared parameter
\* list fails with MissingReceiverParameter and allocates no slot table.
C7_MissingReceiver ==
    (pc # "new" /\ has_self(call.cls) /\ Len(call.parameters) = 0) =>
        (pc = "MissingReceiverParameter" /\ localvars = EmptyDict)

ReservationOrder ==
    (IF has_self(call.cls) THEN << "self" >> ELSE << >>)
        \o << ARGS, KWARGS >>
        \o [k \in 1..Len(parameters) |-> parameters[k].name]

SlotsInjective ==
    \A a, b \in DOMAIN localvars : a # b => localvars[a] # localvars[b]
SlotsInOrder ==
    Constructed =>
        /\ DictLen(localvars) = Len(ReservationOrder)
        /\ \A k \in 1..Len(ReservationOrder) : localvars[ReservationOrder[k]] = k - 1
SlotsStable ==
    \A n \in DOMAIN localvars : n \in DOMAIN localvars' /\ localvars'[n] = localvars[n]
SlotsGrow == DictLen(localvars') >= DictLen(localvars)

\* C9: at every step of construction distinct names have distinct slots, no
\* assigned slot changes, the table never shrinks, and at the end the slots
\* are 0 .. size-1 in reservation order.
C9_SlotDiscipline ==
    [](SlotsInjective /\ SlotsInOrder) /\ [][SlotsStable /\ SlotsGrow]_vars

IsUnpackAt(s, j) ==
    /\ j + 3 <= Len(s)
    /\ s[j].op = "ALOAD" /\ s[j].var = localvars[ARGS]
    /\ s[j + 1].op = "ICONST"
    /\ s[j + 2].op = "AALOAD"
    /\ s[j + 3].op = "ASTORE"
CountUnpack(s) == Cardinality({j \in 1..Len(s) : IsUnpackAt(s, j)})

IsSuperInit(ins) ==
    /\ ins.op = "INVOKESPECIAL"
    /\ ins.class_name = super_name /\ ins.method = "<init>" /\ ins.descriptor = "()V"

\* C5: whatever the body holds, the prefix of an InitMethod has exactly one
\* invocation of the superclass '<init>' '()V', after every parameter-unpack
\* sequence and before the body.
C5_OneSuperInit ==
    (Tweaked /\ call.cls = "InitMethod") =>
        LET at == {j \in 1..Len(setup) : IsSuperInit(setup[j])}
        IN /\ Cardinality(at) = 1
           /\ \A j \in at :
                /\ j = Len(setup)
                /\ \A k \in 1..Len(setup) : IsUnpackAt(setup, k) => k + 3 < j
           /\ CountUnpack(setup) = Len(parameters)

C5_Witness ==
    /\ pc = "tweaked"
    /\ call.cls = "InitMethod"
    /\ \E k \in DOMAIN call.commands : IsSuperInit(call.commands[k])
    /\ Len(parameters) >= 1
    /\ IsSuperInit(setup[Len(setup)])

\* C6: a MainMethod exports name 'main', descriptor '([Ljava/lang/String;)V'
\* and static true, whatever its body.
C6_MainRecord ==
    (pc = "transpiled" /\ call.cls = "MainMethod") =>
        /\ exported.name = "main"
        /\ exported.descriptor = "([Ljava/lang/String;)V"
        /\ exported.static = TRUE

C6_Witness ==
    /\ pc = "transpiled"
    /\ call.cls = "MainMethod"
    /\ Len(call.commands) = 2
    /\ exported.name = "main"

\* C10: in a Method, InstanceMethod and InitMethod the visible parameter at
\* position i is read from index i of the positional container and stored in
\* the slot of its name, in list order; an InstanceMethod first loads 'self'
\* from index 0, and the parameter indexes do not shift for it.
C10_UnpackIndexes ==
    (Tweaked /\ call.cls \in {"Method", "InstanceMethod", "InitMethod"}) =>
        LET off == IF call.cls = "InstanceMethod" THEN 4 ELSE 0
        IN /\ Len(setup) >= off + 4 * Len(parameters)
           /\ \A k \in 1..Len(parameters) :
                LET j == off + 4 * (k - 1)
                IN /\ setup[j + 1] = [op |-> "ALOAD", var |-> localvars[ARGS]]
                   /\ setup[j + 2] = [op |-> "ICONST", val |-> k - 1]
                   /\ setup[j + 3] = [op |-> "AALOAD"]
                   /\ setup[j + 4] = [op |-> "ASTORE", var |-> localvars[parameters[k].name]]
           /\ call.cls = "InstanceMethod" =>
                /\ setup[1] = [op |-> "ALOAD", var |-> localvars[ARGS]]
                /\ setup[2] = [op |-> "ICONST", val |-> 0]
                /\ setup[3] = [op |-> "AALOAD"]
                /\ setup[4] = [op |-> "ASTORE", var |-> localvars["self"]]

C10_Witness ==
    /\ pc = "tweaked"
    /\ call.cls = "InstanceMethod"
    /\ Len(parameters) = 2
    /\ setup[2] = [op |-> "ICONST", val |-> 0]
    /\ setup[6] = [op |-> "ICONST", val |-> 0]
    /\ setup[10] = [op |-> "ICONST", val |-> 1]
====
